---- MODULE Spec2Model ----
(***************************************************************************)
(* A model of the URI value type of URI.cpp: the structural split of a     *)
(* URI string (REGEX_URI_PARSE, URI::_parseUriString), the per-component   *)
(* validation and normalisation of URI::_initialize, and the percent       *)
(* encoding helpers.                                                       *)
(*                                                                         *)
(* A std::string is a sequence of bytes (0..255).  Str turns a tuple of    *)
(* one-character strings into such a sequence, so that the literals of     *)
(* the model stay readable.                                                *)
(***************************************************************************)
EXTENDS Integers, Sequences, FiniteSets, TLC

(***************************************************************************)
(* Bytes and string literals.                                              *)
(***************************************************************************)

\* The printable ASCII characters in code order, 0x20 .. 0x7E ("GRAVE" stands
\* for the grave accent, 0x60, which a string literal cannot hold).
PrintableAscii ==
    << " ", "!", "\"", "#", "$", "%", "&", "'", "(", ")", "*", "+", ",", "-", ".", "/",
       "0", "1", "2", "3", "4", "5", "6", "7", "8", "9", ":", ";", "<", "=", ">", "?",
       "@", "A", "B", "C", "D", "E", "F", "G", "H", "I", "J", "K", "L", "M", "N", "O",
       "P", "Q", "R", "S", "T", "U", "V", "W", "X", "Y", "Z", "[", "\\", "]", "^", "_",
       "GRAVE", "a", "b", "c", "d", "e", "f", "g", "h", "i", "j", "k", "l", "m", "n", "o",
       "p", "q", "r", "s", "t", "u", "v", "w", "x", "y", "z", "{", "|", "}", "~" >>

\* The byte of a character: "\n" and "\r" are the line terminators, every
\* other character is printable ASCII.
Ord(c) ==
    IF c = "\n" THEN 10
    ELSE IF c = "\r" THEN 13
    ELSE 31 + (CHOOSE i \in DOMAIN PrintableAscii : PrintableAscii[i] = c)

\* The std::string written as the tuple of its characters.
Str(t) == [i \in DOMAIN t |-> Ord(t[i])]

\* The set of the bytes of the characters of a tuple.
Chars(t) == {Ord(t[i]) : i \in DOMAIN t}

EmptyString == << >>

COLON == Ord(":")
SLASH == Ord("/")
QUESTION == Ord("?")
HASH == Ord("#")
AT == Ord("@")
PERCENT == Ord("%")
LBRACKET == Ord("[")
RBRACKET == Ord("]")
DOT == Ord(".")
UPPER_A == Ord("A")
LOWER_A == Ord("a")
LOWER_V == Ord("v")
ZERO == Ord("0")
ONE == Ord("1")
TWO == Ord("2")
THREE == Ord("3")
FIVE == Ord("5")
SIX == Ord("6")

Upper == Chars(<<"A","B","C","D","E","F","G","H","I","J","K","L","M",
                 "N","O","P","Q","R","S","T","U","V","W","X","Y","Z">>)
Lower == Chars(<<"a","b","c","d","e","f","g","h","i","j","k","l","m",
                 "n","o","p","q","r","s","t","u","v","w","x","y","z">>)
Digit == Chars(<<"0","1","2","3","4","5","6","7","8","9">>)

\* [0-9a-fA-F]
HexDigit == Digit \cup Chars(<<"a","b","c","d","e","f","A","B","C","D","E","F">>)

\* What '.' of an ECMAScript std::regex does not match.
LineTerminator == Chars(<<"\n", "\r">>)

\* The suffix of s from position i (1-based) on.
From(s, i) == SubSeq(s, i, Len(s))

\* s is made of characters of the set class only.
AllIn(s, class) == \A i \in DOMAIN s : s[i] \in class

\* F of value, with value computed once: a local variable of the code that
\* is set once and read several times.
Bind(value, F(_)) == CHOOSE result \in {F(x) : x \in {value}} : TRUE

(***************************************************************************)
(* The character classes of RFC-3986 as URI.cpp writes them.               *)
(***************************************************************************)

\* STRING_SUBSET_DELIMITERS_REGEX  [!$&'()*+,;=]
STRING_SUBSET_DELIMITERS_REGEX ==
    Chars(<<"!", "$", "&", "'", "(", ")", "*", "+", ",", ";", "=">>)

\* STRING_UNRESERVED_REGEX  [A-Za-z0-9._~-]
STRING_UNRESERVED_REGEX == Upper \cup Lower \cup Digit \cup Chars(<<".", "_", "~", "-">>)

\* STRING_UNRESERVED_CHARACTERS, the string the encoder searches.
STRING_UNRESERVED_CHARACTERS == Upper \cup Lower \cup Digit \cup Chars(<<"-", ".", "_", "~">>)

\* s matches ( [single] | %[0-9a-fA-F][0-9a-fA-F] ) repeated: a run of characters of
\* the class single and of percent-encoded triplets (STRING_PERCENT_ENCODED_REGEX).
RECURSIVE StarWithPercentEncoded(_, _)
StarWithPercentEncoded(s, single) ==
    IF s = << >> THEN TRUE
    ELSE IF s[1] \in single THEN StarWithPercentEncoded(Tail(s), single)
    ELSE /\ s[1] = PERCENT
         /\ Len(s) >= 3
         /\ s[2] \in HexDigit
         /\ s[3] \in HexDigit
         /\ StarWithPercentEncoded(From(s, 4), single)

(***************************************************************************)
(* Percent encoding.                                                       *)
(***************************************************************************)

\* The sixteen upper-case hexadecimal digits the table is written with.
UpperHexDigits ==
    Str(<<"0","1","2","3","4","5","6","7","8","9","A","B","C","D","E","F">>)

\* The table as the generator gives it with %2.2x in place of %2.2X.
PercentEncodedInSmallLetters(byte) ==
    << PERCENT,
       Str(<<"0","1","2","3","4","5","6","7","8","9","a","b","c","d","e","f">>)[(byte \div 16) + 1],
       Str(<<"0","1","2","3","4","5","6","7","8","9","a","b","c","d","e","f">>)[(byte % 16) + 1] >>

\* ARRAY_PERCENT_ENCODED_CHARACTER_TABLE[ byte ]: "%00" .. "%FF".
ARRAY_PERCENT_ENCODED_CHARACTER_TABLE(byte) ==
    << PERCENT, UpperHexDigits[(byte \div 16) + 1], UpperHexDigits[(byte % 16) + 1] >>

\* __uri_percent_encode_encode: every byte that is not found in
\* STRING_UNRESERVED_CHARACTERS is replaced by its table entry.
RECURSIVE __uri_percent_encode_encode(_)
__uri_percent_encode_encode(unencodedString) ==
    IF unencodedString = << >> THEN << >>
    ELSE (IF unencodedString[1] \notin STRING_UNRESERVED_CHARACTERS
          THEN ARRAY_PERCENT_ENCODED_CHARACTER_TABLE(unencodedString[1])
          ELSE << unencodedString[1] >>)
         \o __uri_percent_encode_encode(Tail(unencodedString))

\* __hexadecimal_character_to_nibble, in unsigned char arithmetic.
__hexadecimal_character_to_nibble(hexadecimalCharacter) ==
    IF hexadecimalCharacter >= UPPER_A
    THEN (hexadecimalCharacter
            - 32 * (IF hexadecimalCharacter >= LOWER_A THEN 1 ELSE 0)
            - UPPER_A + 10) % 256
    ELSE (hexadecimalCharacter - ZERO) % 256

\* The bitwise or of two bytes.
RECURSIVE BitOr(_, _)
BitOr(a, b) ==
    IF a = 0 THEN b
    ELSE IF b = 0 THEN a
    ELSE 2 * BitOr(a \div 2, b \div 2) + (IF a % 2 = 1 \/ b % 2 = 1 THEN 1 ELSE 0)

\* __hexadecimal_octet_to_char: ( nibble << 4 ) | nibble, as an unsigned char.
__hexadecimal_octet_to_char(hexadecimalPair) ==
    BitOr(__hexadecimal_character_to_nibble(hexadecimalPair[1]) * 16,
          __hexadecimal_character_to_nibble(hexadecimalPair[2])) % 256

\* std::isxdigit in the "C" locale.
isxdigit(character) == character \in HexDigit

\* __uri_percent_encode_decode from position index (1-based) on: a '%' with
\* two hexadecimal digits after it gives one byte; any other '%' appends
\* nothing and the scan goes on with the next character.
RECURSIVE DecodeFrom(_, _)
DecodeFrom(encodedString, index) ==
    IF index > Len(encodedString) THEN << >>
    ELSE IF encodedString[index] = PERCENT
    THEN IF /\ index + 2 <= Len(encodedString)
            /\ isxdigit(encodedString[index + 1])
            /\ isxdigit(encodedString[index + 2])
         THEN << __hexadecimal_octet_to_char(SubSeq(encodedString, index + 1, index + 2)) >>
              \o DecodeFrom(encodedString, index + 3)
         ELSE DecodeFrom(encodedString, index + 1)
    ELSE << encodedString[index] >> \o DecodeFrom(encodedString, index + 1)

__uri_percent_encode_decode(encodedString) == DecodeFrom(encodedString, 1)

(***************************************************************************)
(* The structural split, REGEX_URI_PARSE.  With s = [^:/?#]+, u = [^@]+,     *)
(* h = [^/?#:]* , p = [^/?#]+ , a = [^?#]* , q = [^#]* and f = .* it reads  *)
(*      ^ ((s):)? ( // ((u)@)? (h) (:(p))? )? (a) ( \?(q) )? ( #(f) )? $     *)
(* Every quantifier is greedy and every greedy choice leaves a rest that   *)
(* the remaining pattern can match, up to the final f, so the match the    *)
(* backtracking matcher returns is the one of the greedy choices; it       *)
(* fails exactly when the text after that '#' holds a line terminator,     *)
(* which '.' does not match.                                               *)
(***************************************************************************)

\* The position after the longest run of characters outside excluded that
\* starts at position i: the end of a greedy [^excluded]* .
RECURSIVE RunEnd(_, _, _)
RunEnd(s, i, excluded) ==
    IF i > Len(s) \/ s[i] \in excluded THEN i ELSE RunEnd(s, i + 1, excluded)

\* The character of s at position i is c.
At(s, i, c) == i <= Len(s) /\ s[i] = c

\* Groups 1 and 2, the scheme: [^:/?#]+ before a colon.  next is the
\* position the rest of the pattern goes on from.
MatchScheme(uriString) ==
    Bind(RunEnd(uriString, 1, {COLON, SLASH, QUESTION, HASH}), LAMBDA schemeEnd :
        IF schemeEnd > 1 /\ At(uriString, schemeEnd, COLON)
        THEN [ scheme |-> SubSeq(uriString, 1, schemeEnd - 1), next |-> schemeEnd + 1 ]
        ELSE [ scheme |-> << >>, next |-> 1 ])

\* Groups 4 and 5, the user information: [^@]+ before an at sign.
MatchUserInformation(uriString, start) ==
    Bind(RunEnd(uriString, start, {AT}), LAMBDA userEnd :
        IF userEnd > start /\ At(uriString, userEnd, AT)
        THEN [ userInformation |-> SubSeq(uriString, start, userEnd - 1), next |-> userEnd + 1 ]
        ELSE [ userInformation |-> << >>, next |-> start ])

\* Group 6, the host: the longest run of [^/?#:].
MatchHost(uriString, start) ==
    Bind(RunEnd(uriString, start, {SLASH, QUESTION, HASH, COLON}), LAMBDA hostEnd :
        [ host |-> SubSeq(uriString, start, hostEnd - 1), next |-> hostEnd ])

\* Groups 7 and 8, the port: a colon and [^/?#]+.
MatchPort(uriString, start) ==
    Bind(RunEnd(uriString, start + 1, {SLASH, QUESTION, HASH}), LAMBDA portEnd :
        IF At(uriString, start, COLON) /\ portEnd > start + 1
        THEN [ port |-> SubSeq(uriString, start + 1, portEnd - 1), next |-> portEnd ]
        ELSE [ port |-> << >>, next |-> start ])

\* Group 3, the authority: two slashes, then the groups 4 to 8.
MatchAuthority(uriString, start) ==
    IF At(uriString, start, SLASH) /\ At(uriString, start + 1, SLASH)
    THEN Bind(MatchUserInformation(uriString, start + 2), LAMBDA user :
         Bind(MatchHost(uriString, user.next), LAMBDA host :
         Bind(MatchPort(uriString, host.next), LAMBDA port :
            [ userInformation |-> user.userInformation, host |-> host.host,
              port |-> port.port, next |-> port.next ])))
    ELSE [ userInformation |-> << >>, host |-> << >>, port |-> << >>, next |-> start ]

\* Group 9, the path: the longest run of [^?#].
MatchPath(uriString, start) ==
    Bind(RunEnd(uriString, start, {QUESTION, HASH}), LAMBDA pathEnd :
        [ path |-> SubSeq(uriString, start, pathEnd - 1), next |-> pathEnd ])

\* Groups 10 and 11, the query: a question mark and the longest run of [^#].
MatchQuery(uriString, start) ==
    IF At(uriString, start, QUESTION)
    THEN Bind(RunEnd(uriString, start + 1, {HASH}), LAMBDA queryEnd :
            [ query |-> SubSeq(uriString, start + 1, queryEnd - 1), next |-> queryEnd ])
    ELSE [ query |-> << >>, next |-> start ]

\* Groups 12 and 13, the fragment, and the end of the string: a hash and a
\* run of any character but a line terminator.
MatchFragment(uriString, start) ==
    IF At(uriString, start, HASH)
    THEN Bind(From(uriString, start + 1), LAMBDA text :
            [ fragment |-> text, matched |-> AllIn(text, 0..255 \ LineTerminator) ])
    ELSE [ fragment |-> << >>, matched |-> start > Len(uriString) ]

\* The capture groups 2, 5, 6, 8, 9, 11 and 13 of REGEX_URI_PARSE on uriString,
\* and whether std::regex_search found a match.
REGEX_URI_PARSE(uriString) ==
    Bind(MatchScheme(uriString), LAMBDA scheme :
    Bind(MatchAuthority(uriString, scheme.next), LAMBDA authority :
    Bind(MatchPath(uriString, authority.next), LAMBDA path :
    Bind(MatchQuery(uriString, path.next), LAMBDA query :
    Bind(MatchFragment(uriString, query.next), LAMBDA fragment :
        [ matched |-> fragment.matched,
          scheme |-> scheme.scheme,
          userInformation |-> authority.userInformation,
          host |-> authority.host,
          port |-> authority.port,
          path |-> path.path,
          query |-> query.query,
          fragment |-> fragment.fragment ])))))

(***************************************************************************)
(* The component patterns.  Each REGEX_URI_x(s) is std::regex_match of s   *)
(* against the pattern of that name.                                       *)
(***************************************************************************)

\* The characters lo .. hi of a bracket expression [lo-hi].
Range(lo, hi) == {c \in 0..255 : Ord(lo) <= c /\ c <= Ord(hi)}

\* The bracket expressions [1-9], [0-4], [0-5], [1-5] and [0-2] of the octet
\* and port patterns.
Digit1To9 == Range("1", "9")
Digit0To4 == Range("0", "4")
Digit0To5 == Range("0", "5")
Digit1To5 == Range("1", "5")
Digit0To2 == Range("0", "2")

\* s without its last character.
Front(s) == SubSeq(s, 1, Len(s) - 1)

\* The bracket expressions [a-zA-Z] and [a-zA-Z0-9+.-] of the scheme pattern.
SchemeFirstCharacters == Lower \cup Upper
SchemeCharacters == Lower \cup Upper \cup Digit \cup Chars(<<"+", ".", "-">>)

\* The scheme pattern without its star, one letter and one more character,
\* as the file's older copy of the pattern has it.
SchemeOfTwoCharacters(s) ==
    /\ Len(s) = 2
    /\ s[1] \in SchemeFirstCharacters
    /\ s[2] \in SchemeCharacters

\* STRING_URI_SCHEME_REGEX  [a-zA-Z][a-zA-Z0-9+.-]*
STRING_URI_SCHEME_REGEX(s) ==
    /\ s # << >>
    /\ s[1] \in SchemeFirstCharacters
    /\ AllIn(Tail(s), SchemeCharacters)

\* REGEX_URI_SCHEME: the scheme, then an optional colon.
REGEX_URI_SCHEME(s) ==
    \/ STRING_URI_SCHEME_REGEX(s)
    \/ s # << >> /\ s[Len(s)] = COLON /\ STRING_URI_SCHEME_REGEX(Front(s))

\* The single characters of the user information pattern, which are those of
\* the tail of the IPvFuture pattern as well: unreserved | sub-delims | :
UserInformationCharacters ==
    STRING_UNRESERVED_REGEX \cup STRING_SUBSET_DELIMITERS_REGEX \cup {COLON}

\* STRING_URI_USER_INFORMATION_REGEX  ( unreserved | pct-encoded | sub-delims | : ) repeated
STRING_URI_USER_INFORMATION_REGEX(s) ==
    StarWithPercentEncoded(s, UserInformationCharacters)

\* REGEX_URI_USER_INFORMATION: the user information, then an optional at sign.
REGEX_URI_USER_INFORMATION(s) ==
    \/ STRING_URI_USER_INFORMATION_REGEX(s)
    \/ s # << >> /\ s[Len(s)] = AT /\ STRING_URI_USER_INFORMATION_REGEX(Front(s))

\* The single characters of the registered name pattern: unreserved | sub-delims
RegisteredNameCharacters == STRING_UNRESERVED_REGEX \cup STRING_SUBSET_DELIMITERS_REGEX

\* STRING_REGISTERED_NAME_REGEX  ( unreserved | pct-encoded | sub-delims ) repeated
STRING_REGISTERED_NAME_REGEX(s) ==
    StarWithPercentEncoded(s, RegisteredNameCharacters)

\* STRING_DECIMAL_OCTET_REGEX  [0-9] | [1-9][0-9] | 1[0-9]{2} | 2[0-4][0-9] | 25[0-5]
STRING_DECIMAL_OCTET_REGEX(s) ==
    \/ Len(s) = 1 /\ s[1] \in Digit
    \/ Len(s) = 2 /\ s[1] \in Digit1To9 /\ s[2] \in Digit
    \/ Len(s) = 3 /\ s[1] = ONE /\ s[2] \in Digit /\ s[3] \in Digit
    \/ Len(s) = 3 /\ s[1] = TWO /\ s[2] \in Digit0To4 /\ s[3] \in Digit
    \/ Len(s) = 3 /\ s[1] = TWO /\ s[2] = FIVE /\ s[3] \in Digit0To5

\* STRING_IPV4_ADDRESS_REGEX: four decimal octets joined by "." , which the
\* pattern writes unescaped: any character but a line terminator.
STRING_IPV4_ADDRESS_REGEX(s) ==
    \E a \in 1..3, b \in 1..3, c \in 1..3 :
        LET d == Len(s) - (a + b + c + 3)
        IN  /\ d \in 1..3
            /\ STRING_DECIMAL_OCTET_REGEX(SubSeq(s, 1, a))
            /\ s[a + 1] \notin LineTerminator
            /\ STRING_DECIMAL_OCTET_REGEX(SubSeq(s, a + 2, a + b + 1))
            /\ s[a + b + 2] \notin LineTerminator
            /\ STRING_DECIMAL_OCTET_REGEX(SubSeq(s, a + b + 3, a + b + c + 2))
            /\ s[a + b + c + 3] \notin LineTerminator
            /\ STRING_DECIMAL_OCTET_REGEX(From(s, a + b + c + 4))

\* STRING_HEXADECIMAL_HEXTET_REGEX  [0-9A-Fa-f]{4}
STRING_HEXADECIMAL_HEXTET_REGEX(s) == Len(s) = 4 /\ AllIn(s, HexDigit)

\* STRING_IPV6_ADDRESS_LEAST_SIGNIFICANT_32_BITS_REGEX  hextet:hextet | IPv4
STRING_IPV6_ADDRESS_LEAST_SIGNIFICANT_32_BITS_REGEX(s) ==
    \/ /\ Len(s) = 9
       /\ STRING_HEXADECIMAL_HEXTET_REGEX(SubSeq(s, 1, 4))
       /\ s[5] = COLON
       /\ STRING_HEXADECIMAL_HEXTET_REGEX(SubSeq(s, 6, 9))
    \/ STRING_IPV4_ADDRESS_REGEX(s)

\* ( hextet: ){n}
HextetColonTimes(s, n) ==
    /\ Len(s) = 5 * n
    /\ \A k \in 0..(n - 1) :
          /\ STRING_HEXADECIMAL_HEXTET_REGEX(SubSeq(s, 5 * k + 1, 5 * k + 4))
          /\ s[5 * k + 5] = COLON

\* ( ( hextet: ){0,m} hextet )?  ; with m = -1 the group is not there at all.
OptionalHextets(s, m) ==
    \/ s = << >>
    \/ \E k \in 0..m :
          /\ Len(s) = 5 * k + 4
          /\ HextetColonTimes(SubSeq(s, 1, 5 * k), k)
          /\ STRING_HEXADECIMAL_HEXTET_REGEX(From(s, 5 * k + 1))

\* One compressed alternative of the IPv6 pattern:
\*   ( ( hextet: ){0,m} hextet )? :: ( hextet: ){n} tail
\* with tail one of "ls32", "hextet", "none".
CompressedIPv6(s, m, n, tail) ==
    \E i \in 0..(Len(s) - 2) :
        LET rest == From(s, i + 3)
            last == From(rest, 5 * n + 1)
        IN  /\ OptionalHextets(SubSeq(s, 1, i), m)
            /\ s[i + 1] = COLON
            /\ s[i + 2] = COLON
            /\ Len(rest) >= 5 * n
            /\ HextetColonTimes(SubSeq(rest, 1, 5 * n), n)
            /\ CASE tail = "ls32" -> STRING_IPV6_ADDRESS_LEAST_SIGNIFICANT_32_BITS_REGEX(last)
                 [] tail = "hextet" -> STRING_HEXADECIMAL_HEXTET_REGEX(last)
                 [] OTHER -> last = << >>

\* STRING_IPV6_ADDRESS_REGEX, its nine alternatives in order.
STRING_IPV6_ADDRESS_REGEX(s) ==
    \/ /\ Len(s) >= 30
       /\ HextetColonTimes(SubSeq(s, 1, 30), 6)
       /\ STRING_IPV6_ADDRESS_LEAST_SIGNIFICANT_32_BITS_REGEX(From(s, 31))
    \/ CompressedIPv6(s, -1, 5, "ls32")
    \/ CompressedIPv6(s, 0, 4, "ls32")
    \/ CompressedIPv6(s, 1, 3, "ls32")
    \/ CompressedIPv6(s, 2, 2, "ls32")
    \/ CompressedIPv6(s, 3, 1, "ls32")
    \/ CompressedIPv6(s, 4, 0, "ls32")
    \/ CompressedIPv6(s, 5, 0, "hextet")
    \/ CompressedIPv6(s, 6, 0, "none")

\* STRING_IPVFUTURE_REGEX  v[0-9A-Fa-f]+\.( unreserved | sub-delims | : )+
STRING_IPVFUTURE_REGEX(s) ==
    \E j \in 2..(Len(s) - 2) :
        /\ s[1] = LOWER_V
        /\ AllIn(SubSeq(s, 2, j), HexDigit)
        /\ s[j + 1] = DOT
        /\ AllIn(From(s, j + 2), UserInformationCharacters)

\* STRING_IPLITERAL_REGEX  \[( IPv6 | IPvFuture )\]
STRING_IPLITERAL_REGEX(s) ==
    /\ Len(s) >= 2
    /\ s[1] = LBRACKET
    /\ s[Len(s)] = RBRACKET
    /\ LET inner == SubSeq(s, 2, Len(s) - 1)
       IN  STRING_IPV6_ADDRESS_REGEX(inner) \/ STRING_IPVFUTURE_REGEX(inner)

\* REGEX_URI_HOST  ^( IP-literal | IPv4address | reg-name )$
REGEX_URI_HOST(s) ==
    \/ STRING_IPLITERAL_REGEX(s)
    \/ STRING_IPV4_ADDRESS_REGEX(s)
    \/ STRING_REGISTERED_NAME_REGEX(s)

\* STRING_URI_PORT_REGEX, the six alternatives for 1-9999, 10000-59999,
\* 60000-64999, 65000-65499, 65500-65529 and 65530-65535.
STRING_URI_PORT_REGEX(s) ==
    \/ Len(s) \in 1..4 /\ s[1] \in Digit1To9 /\ AllIn(Tail(s), Digit)
    \/ Len(s) = 5 /\ s[1] \in Digit1To5 /\ AllIn(Tail(s), Digit)
    \/ Len(s) = 5 /\ s[1] = SIX /\ s[2] \in Digit0To4 /\ AllIn(From(s, 3), Digit)
    \/ /\ Len(s) = 5
       /\ SubSeq(s, 1, 2) = <<SIX, FIVE>>
       /\ s[3] \in Digit0To4
       /\ AllIn(From(s, 4), Digit)
    \/ /\ Len(s) = 5
       /\ SubSeq(s, 1, 3) = <<SIX, FIVE, FIVE>>
       /\ s[4] \in Digit0To2
       /\ s[5] \in Digit
    \/ /\ Len(s) = 5
       /\ SubSeq(s, 1, 4) = <<SIX, FIVE, FIVE, THREE>>
       /\ s[5] \in Digit0To5

\* REGEX_URI_PORT: an optional colon, then the port.
REGEX_URI_PORT(s) ==
    \/ STRING_URI_PORT_REGEX(s)
    \/ s # << >> /\ s[1] = COLON /\ STRING_URI_PORT_REGEX(Tail(s))

\* The single characters of STRING_PATH_CHARACTER_REGEX (pchar without the
\* percent-encoded triplets).
PathCharacters ==
    STRING_UNRESERVED_REGEX \cup STRING_SUBSET_DELIMITERS_REGEX \cup {COLON, AT}

\* STRING_SEGMENT_REGEX  pchar repeated, possibly zero times
STRING_SEGMENT_REGEX(s) == StarWithPercentEncoded(s, PathCharacters)

\* STRING_SEGMENT_NON_ZERO_LENGTH_REGEX  pchar+
STRING_SEGMENT_NON_ZERO_LENGTH_REGEX(s) == s # << >> /\ STRING_SEGMENT_REGEX(s)

\* The single characters of a segment without colon: unreserved | sub-delims | @
SegmentNoColonCharacters ==
    STRING_UNRESERVED_REGEX \cup STRING_SUBSET_DELIMITERS_REGEX \cup {AT}

\* STRING_SEGMENT_NON_ZERO_LENGTH_NO_COLON_REGEX  ( unreserved | pct-encoded | sub-delims | @ )+
STRING_SEGMENT_NON_ZERO_LENGTH_NO_COLON_REGEX(s) ==
    /\ s # << >>
    /\ StarWithPercentEncoded(s, SegmentNoColonCharacters)

\* STRING_PATH_ABSOLUTE_OR_EMPTY_REGEX  ( / segment ) repeated; a segment
\* holds no slash, so each one ends at the next slash.
RECURSIVE STRING_PATH_ABSOLUTE_OR_EMPTY_REGEX(_)
STRING_PATH_ABSOLUTE_OR_EMPTY_REGEX(s) ==
    \/ s = << >>
    \/ /\ s[1] = SLASH
       /\ LET next == RunEnd(s, 2, {SLASH})
          IN  /\ STRING_SEGMENT_REGEX(SubSeq(s, 2, next - 1))
              /\ STRING_PATH_ABSOLUTE_OR_EMPTY_REGEX(From(s, next))

\* STRING_PATH_ROOTLESS_REGEX  segment-nz ( / segment ) repeated
STRING_PATH_ROOTLESS_REGEX(s) ==
    LET next == RunEnd(s, 1, {SLASH})
    IN  /\ STRING_SEGMENT_NON_ZERO_LENGTH_REGEX(SubSeq(s, 1, next - 1))
        /\ STRING_PATH_ABSOLUTE_OR_EMPTY_REGEX(From(s, next))

\* STRING_PATH_NO_SCHEME_REGEX  segment-nz-nc ( / segment ) repeated
STRING_PATH_NO_SCHEME_REGEX(s) ==
    LET next == RunEnd(s, 1, {SLASH})
    IN  /\ STRING_SEGMENT_NON_ZERO_LENGTH_NO_COLON_REGEX(SubSeq(s, 1, next - 1))
        /\ STRING_PATH_ABSOLUTE_OR_EMPTY_REGEX(From(s, next))

\* STRING_PATH_ABSOLUTE_REGEX  / ( segment-nz ( / segment ) repeated )?
STRING_PATH_ABSOLUTE_REGEX(s) ==
    /\ s # << >>
    /\ s[1] = SLASH
    /\ (Len(s) = 1 \/ STRING_PATH_ROOTLESS_REGEX(Tail(s)))

\* STRING_PATH_EMPTY_REGEX  pchar{0}
STRING_PATH_EMPTY_REGEX(s) == s = << >>

\* REGEX_URI_PATH  ^( abempty | absolute | noscheme | rootless | empty )$
REGEX_URI_PATH(s) ==
    \/ STRING_PATH_ABSOLUTE_OR_EMPTY_REGEX(s)
    \/ STRING_PATH_ABSOLUTE_REGEX(s)
    \/ STRING_PATH_NO_SCHEME_REGEX(s)
    \/ STRING_PATH_ROOTLESS_REGEX(s)
    \/ STRING_PATH_EMPTY_REGEX(s)

\* The single characters of the query and fragment patterns: pchar | / | ?
QueryCharacters == PathCharacters \cup {SLASH, QUESTION}

\* STRING_URI_QUERY_REGEX  ( pchar | / | ? ) repeated
STRING_URI_QUERY_REGEX(s) == StarWithPercentEncoded(s, QueryCharacters)

\* REGEX_URI_QUERY: an optional question mark, then the query.
REGEX_URI_QUERY(s) ==
    \/ STRING_URI_QUERY_REGEX(s)
    \/ s # << >> /\ s[1] = QUESTION /\ STRING_URI_QUERY_REGEX(Tail(s))

\* STRING_URI_FRAGMENT_REGEX  ( pchar | / | ? ) repeated
STRING_URI_FRAGMENT_REGEX(s) == StarWithPercentEncoded(s, QueryCharacters)

\* REGEX_URI_FRAGMENT: an optional hash, then the fragment.
REGEX_URI_FRAGMENT(s) ==
    \/ STRING_URI_FRAGMENT_REGEX(s)
    \/ s # << >> /\ s[1] = HASH /\ STRING_URI_FRAGMENT_REGEX(Tail(s))

(***************************************************************************)
(* URI::_initialize.  A frame is the object under construction (the m...   *)
(* members), the local hasAuthority and the exception thrown, "" while     *)
(* none is.  Each Initialize... operator is one block of the function; a   *)
(* block that throws leaves the frame as the throw found it.               *)
(***************************************************************************)

\* std::tolower of one byte in the "C" locale.
tolower(character) == IF character \in Upper THEN character + 32 ELSE character

\* std::transform( ..., tolower ) over a string.
ToLowerString(s) == [i \in DOMAIN s |-> tolower(s[i])]

\* The frame with the exception message thrown.
Throw(frame, message) == [frame EXCEPT !.thrown = message]

\* The clear() calls and the two flags: an empty URI is a valid relative URI.
InitializeClear ==
    [ mScheme |-> << >>, mUserInformation |-> << >>, mHost |-> << >>, mPort |-> << >>,
      mPath |-> << >>, mQuery |-> << >>, mFragment |-> << >>,
      mRawScheme |-> << >>, mRawUserInformation |-> << >>,
      mRawUserInformationWithPassword |-> << >>, mRawHost |-> << >>,
      mRawPath |-> << >>, mRawQuery |-> << >>, mRawFragment |-> << >>,
      mIsAbsolute |-> FALSE, mIsRelative |-> TRUE,
      hasAuthority |-> FALSE, thrown |-> "" ]

\* The scheme block without its assignment to mIsRelative.
InitializeSchemeKeepingRelative(frame, schemeString) ==
    IF schemeString = << >> THEN frame
    ELSE IF ~REGEX_URI_SCHEME(schemeString) THEN Throw(frame, "Invalid scheme")
    ELSE [frame EXCEPT !.mRawScheme = ToLowerString(schemeString),
                       !.mScheme = schemeString,
                       !.mIsAbsolute = TRUE]

\* // Scheme
InitializeScheme(frame, schemeString) ==
    IF schemeString = << >> THEN frame
    ELSE IF ~REGEX_URI_SCHEME(schemeString) THEN Throw(frame, "Invalid scheme")
    ELSE [frame EXCEPT !.mRawScheme = ToLowerString(schemeString),
                       !.mScheme = schemeString,
                       !.mIsRelative = FALSE,
                       !.mIsAbsolute = TRUE]

\* The user-information block without the decoding of mUserInformation.
InitializeUserInformationUndecoded(frame, userInformationString) ==
    IF userInformationString = << >> THEN frame
    ELSE Bind([frame EXCEPT !.mRawUserInformation = userInformationString,
                            !.mUserInformation = userInformationString,
                            !.hasAuthority = TRUE], LAMBDA set :
             IF ~REGEX_URI_USER_INFORMATION(set.mRawUserInformation)
             THEN Throw([set EXCEPT !.mRawUserInformation =
                                        __uri_percent_encode_encode(set.mRawUserInformation)],
                        "Invalid user information")
             ELSE set)

\* // User information
InitializeUserInformation(frame, userInformationString) ==
    IF userInformationString = << >> THEN frame
    ELSE Bind([frame EXCEPT !.mRawUserInformation = userInformationString,
                            !.mUserInformation = userInformationString,
                            !.hasAuthority = TRUE], LAMBDA set :
             IF ~REGEX_URI_USER_INFORMATION(set.mRawUserInformation)
             THEN Throw([set EXCEPT !.mRawUserInformation =
                                        __uri_percent_encode_encode(set.mRawUserInformation)],
                        "Invalid user information")
             ELSE [set EXCEPT !.mUserInformation =
                                  __uri_percent_encode_decode(set.mUserInformation)])

\* The host block without the throw for an authority that has no host.
InitializeHostAllowingNone(frame, hostString) ==
    IF hostString = << >> THEN frame
    ELSE Bind([frame EXCEPT !.mRawHost = __uri_percent_encode_encode(hostString)],
              LAMBDA encoded :
                 IF ~REGEX_URI_HOST(encoded.mRawHost) THEN Throw(encoded, "Invalid host")
                 ELSE [encoded EXCEPT !.mHost = hostString])

\* // Host
InitializeHost(frame, hostString) ==
    IF hostString = << >>
    THEN IF frame.hasAuthority THEN Throw(frame, "User information set without a host")
         ELSE frame
    ELSE Bind([frame EXCEPT !.mRawHost = __uri_percent_encode_encode(hostString)],
              LAMBDA encoded :
                 IF ~REGEX_URI_HOST(encoded.mRawHost) THEN Throw(encoded, "Invalid host")
                 ELSE [encoded EXCEPT !.mHost = hostString])

\* The port block without the throw for a port that has no authority.
InitializePortAllowingNoAuthority(frame, portString) ==
    IF portString = << >> THEN frame
    ELSE IF ~REGEX_URI_PORT(portString) THEN Throw(frame, "Invalid port")
    ELSE [frame EXCEPT !.mPort = portString]

\* // Port
InitializePort(frame, portString) ==
    IF portString = << >> THEN frame
    ELSE IF ~REGEX_URI_PORT(portString) THEN Throw(frame, "Invalid port")
    ELSE IF ~frame.hasAuthority THEN Throw(frame, "No host defined for port")
    ELSE [frame EXCEPT !.mPort = portString]

\* // Path
InitializePath(frame, pathString) ==
    IF pathString = << >> THEN frame
    ELSE IF ~REGEX_URI_PATH(pathString) THEN Throw(frame, "Invalid path")
    ELSE [frame EXCEPT !.mPath = pathString]

\* // Query
InitializeQuery(frame, queryString) ==
    IF queryString = << >> THEN frame
    ELSE IF ~REGEX_URI_QUERY(queryString) THEN Throw(frame, "Invalid query")
    ELSE [frame EXCEPT !.mQuery = queryString]

\* The fragment block without its assignment to mIsAbsolute.
InitializeFragmentKeepingAbsolute(frame, fragmentString) ==
    IF fragmentString = << >> THEN frame
    ELSE IF ~REGEX_URI_FRAGMENT(fragmentString) THEN Throw(frame, "Invalid fragment")
    ELSE [frame EXCEPT !.mFragment = fragmentString,
                       !.mIsRelative = FALSE]

\* // Fragment
InitializeFragment(frame, fragmentString) ==
    IF fragmentString = << >> THEN frame
    ELSE IF ~REGEX_URI_FRAGMENT(fragmentString) THEN Throw(frame, "Invalid fragment")
    ELSE [frame EXCEPT !.mFragment = fragmentString,
                       !.mIsAbsolute = FALSE,
                       !.mIsRelative = FALSE]

\* The block next of _initialize, which a thrown exception skips.
Then(frame, next(_, _), componentString) ==
    IF frame.thrown # "" THEN frame ELSE next(frame, componentString)

\* URI::_initialize: the seven blocks in the order of the function.
_initialize(schemeString, userInformationString, hostString, portString, pathString, queryString, fragmentString) ==
    Bind(InitializeScheme(InitializeClear, schemeString), LAMBDA scheme :
    Bind(Then(scheme, InitializeUserInformation, userInformationString), LAMBDA user :
    Bind(Then(user, InitializeHost, hostString), LAMBDA host :
    Bind(Then(host, InitializePort, portString), LAMBDA port :
    Bind(Then(port, InitializePath, pathString), LAMBDA path :
    Bind(Then(path, InitializeQuery, queryString), LAMBDA query :
        Then(query, InitializeFragment, fragmentString)))))))

\* URI::_parseUriString: the seven groups of the match, or the exception.
_parseUriString(uriString) ==
    Bind(REGEX_URI_PARSE(uriString), LAMBDA uriGroupMatch :
        IF uriGroupMatch.matched THEN uriGroupMatch
        ELSE [ matched |-> FALSE, scheme |-> << >>, userInformation |-> << >>,
               host |-> << >>, port |-> << >>, path |-> << >>, query |-> << >>,
               fragment |-> << >> ])

\* The message of the exception of _parseUriString.
ParseFailure == "Failed to parse a URI from the given string"

\* URI::URI( const std::string& ): the split, then _initialize on its groups.
URI_String(uriString) ==
    Bind(_parseUriString(uriString), LAMBDA uriComponents :
        IF ~uriComponents.matched THEN Throw(InitializeClear, ParseFailure)
        ELSE _initialize(uriComponents.scheme, uriComponents.userInformation,
                         uriComponents.host, uriComponents.port, uriComponents.path,
                         uriComponents.query, uriComponents.fragment))

\* URI::URI(): _initialize on seven empty strings.
URI_Empty == _initialize(<< >>, << >>, << >>, << >>, << >>, << >>, << >>)

\* The accessors.
getCanonicalScheme(uri) == uri.mRawScheme
getScheme(uri) == uri.mScheme
getUserInformation(uri) == uri.mUserInformation
getHost(uri) == uri.mHost
getPort(uri) == uri.mPort
getPath(uri) == uri.mPath
getQuery(uri) == uri.mQuery
getFragment(uri) == uri.mFragment
getRawUserInformation(uri, includePassword) ==
    IF includePassword THEN uri.mRawUserInformationWithPassword ELSE uri.mRawUserInformation
getRawHost(uri) == uri.mRawHost
getRawPath(uri) == uri.mRawPath
getRawQuery(uri) == uri.mRawQuery
getRawFragment(uri) == uri.mRawFragment

(***************************************************************************)
(* The inputs of the string constructor.                                   *)
(***************************************************************************)

\* The longest string of StringAlphabet given to the constructor.
MaxLen == 4

\* The characters the short input strings are made of: the delimiters of the
\* structural split, a letter, a digit and a line terminator.
StringAlphabet == Chars(<<"a", "1", ":", "/", "@", "#", "?", "\n">>)

\* Every string of exactly n characters of StringAlphabet.
RECURSIVE StringsOfLength(_)
StringsOfLength(n) ==
    IF n = 0 THEN {<< >>}
    ELSE {<<c>> \o t : c \in StringAlphabet, t \in StringsOfLength(n - 1)}

\* Every string of at most MaxLen characters of StringAlphabet.
ShortStrings == UNION {StringsOfLength(n) : n \in 0..MaxLen}

\* The texts the written inputs are composed of, component by component:
\* well-formed ones and malformed ones.
SchemeTexts ==
    { << >>, Str(<<"h","t","t","p">>), Str(<<"A","b","+">>), Str(<<"1","h","t","t","p">>) }
UserInformationTexts ==
    { << >>, Str(<<"u","s","e","r",":","p","a","s","s">>), Str(<<"u","%","4","1">>),
      Str(<<"u","<">>) }
HostTexts ==
    { << >>, Str(<<"h","o","s","t",".","c","o","m">>), Str(<<"1",".","2",".","3",".","4">>),
      Str(<<"[",":",":","1","]">>), Str(<<"[","v","1",".","a","]">>), Str(<<"h","<">>) }
PortTexts ==
    { << >>, Str(<<"8","0","8","0">>), Str(<<"6","5","5","3","5">>),
      Str(<<"6","5","5","3","6">>), Str(<<"0">>), Str(<<":","8","0">>) }
PathTexts == { << >>, Str(<<"/","p","a","t","h">>), Str(<<"/","a"," ","b">>) }
QueryTexts == { << >>, Str(<<"q","=","1">>), Str(<<"q","<">>) }
FragmentTexts == { << >>, Str(<<"f","r","a","g">>), Str(<<"#","y">>) }

\* More port texts, around the edges of the alternatives of the port pattern.
PortEdgeTexts ==
    { Str(<<"1">>), Str(<<"9">>), Str(<<"8","0">>), Str(<<"0","8","0">>), Str(<<"0","0">>),
      Str(<<"9","9","9","9">>), Str(<<"1","0","0","0","0">>), Str(<<"0","9","9","9","9">>),
      Str(<<"5","9","9","9","9">>), Str(<<"6","0","0","0","0">>), Str(<<"6","4","9","9","9">>),
      Str(<<"6","5","0","0","0">>), Str(<<"6","5","4","9","9">>), Str(<<"6","5","5","0","0">>),
      Str(<<"6","5","5","2","9">>), Str(<<"6","5","5","3","0">>), Str(<<"6","5","5","4","0">>),
      Str(<<"6","5","6","0","0">>), Str(<<"6","6","0","0","0">>), Str(<<"7","0","0","0","0">>),
      Str(<<"9","9","9","9","9">>), Str(<<"1","0","0","0","0","0">>), Str(<<"8","a">>),
      Str(<<"-","1">>), Str(<<":","0">>), Str(<<":","6","5","5","3","6">>) }

\* A written input: the seven texts, and whether the two slashes of an
\* authority are written (they are when one of its three texts is there).
WrittenInputs ==
    [ scheme : SchemeTexts, authority : {TRUE}, userInformation : UserInformationTexts,
      host : HostTexts, port : PortTexts, path : PathTexts, query : QueryTexts,
      fragment : FragmentTexts ]
    \cup
    [ scheme : SchemeTexts, authority : {FALSE}, userInformation : {<< >>},
      host : {<< >>}, port : {<< >>}, path : PathTexts, query : QueryTexts,
      fragment : FragmentTexts ]
    \cup
    [ scheme : {<< >>, Str(<<"h","t","t","p">>)}, authority : {TRUE},
      userInformation : {<< >>, Str(<<"u">>)}, host : {<< >>, Str(<<"h">>)},
      port : PortEdgeTexts, path : {<< >>, Str(<<"/">>)}, query : {<< >>},
      fragment : {<< >>} ]

\* The URI string of a written input:
\* scheme ":" "//" userInformation "@" host ":" port path "?" query "#" fragment,
\* each delimiter written with its text only.
Write(w) ==
    (IF w.scheme # << >> THEN w.scheme \o <<COLON>> ELSE << >>)
    \o (IF w.authority
        THEN <<SLASH, SLASH>>
             \o (IF w.userInformation # << >> THEN w.userInformation \o <<AT>> ELSE << >>)
             \o w.host
             \o (IF w.port # << >> THEN <<COLON>> \o w.port ELSE << >>)
        ELSE << >>)
    \o w.path
    \o (IF w.query # << >> THEN <<QUESTION>> \o w.query ELSE << >>)
    \o (IF w.fragment # << >> THEN <<HASH>> \o w.fragment ELSE << >>)

\* What `written` holds when the input was given as a plain string.
NotWritten ==
    [ scheme |-> << >>, authority |-> FALSE, userInformation |-> << >>, host |-> << >>,
      port |-> << >>, path |-> << >>, query |-> << >>, fragment |-> << >> ]

(***************************************************************************)
(* The state: one URI object and the constructor call that made it.        *)
(***************************************************************************)

VARIABLES
    called,      \* "none", "URI()" or "URI(string)": the constructor called
    uriString,   \* the argument of URI( const std::string& )
    written,     \* the texts uriString was written from, when it was
    isWritten,   \* whether uriString was written from texts
    components,  \* the tuple _parseUriString returned
    uri,         \* the members of the object; all clear while there is none
    constructed, \* whether the constructor returned, so that the object exists
    thrown,      \* the message of the exception the constructor threw, "" if none
    text,        \* the argument of a call of the percent-encoding functions
    applied,     \* the calls made on text: "idle" when none is to be made
    encoded,     \* what __uri_percent_encode_encode returned
    decoded,     \* what __uri_percent_encode_decode returned
    other,       \* the members of the object a copy or a move is made from
    had,         \* the members other had before the copy or the move
    self,        \* the members of the object a copy or a move is made into
    assigned     \* the copy or move made: "idle" when none is to be made

uriVars == <<called, uriString, written, isWritten, components, uri, constructed, thrown>>
codecVars == <<text, applied, encoded, decoded>>
assignVars == <<other, had, self, assigned>>
vars == <<uriVars, codecVars, assignVars>>

\* The members of a frame, without the local and the exception.
Members(frame) ==
    [ field \in DOMAIN frame \ {"hasAuthority", "thrown"} |-> frame[field] ]

\* The members of an object that does not exist.
NoObject == [Members(InitializeClear) EXCEPT !.mIsRelative = FALSE]

\* The end of a constructor call: the object if it returned, the exception
\* if it threw.
Outcome(frame) ==
    /\ thrown' = frame.thrown
    /\ constructed' = (frame.thrown = "")
    /\ uri' = IF frame.thrown = "" THEN Members(frame) ELSE NoObject

\* No constructor was called yet.
NoneConstructed ==
    /\ called = "none"
    /\ uriString = << >>
    /\ written = NotWritten
    /\ isWritten = FALSE
    /\ components = _parseUriString(<< >>)
    /\ uri = NoObject
    /\ constructed = FALSE
    /\ thrown = ""

\* No call of the percent-encoding functions is to be made.
CodecIdle ==
    /\ text = << >>
    /\ applied = "idle"
    /\ encoded = << >>
    /\ decoded = << >>

\* No copy and no move is to be made.
AssignIdle ==
    /\ other = NoObject
    /\ had = NoObject
    /\ self = NoObject
    /\ assigned = "idle"

Init == NoneConstructed /\ CodecIdle /\ AssignIdle

\* URI::URI()
ConstructEmpty ==
    /\ called = "none"
    /\ called' = "URI()"
    /\ \E frame \in {URI_Empty} : Outcome(frame)
    /\ UNCHANGED <<uriString, written, isWritten, components>>
    /\ UNCHANGED <<codecVars, assignVars>>

\* URI::URI( const std::string& ) on uriString.
Construct(string) ==
    /\ called' = "URI(string)"
    /\ uriString' = string
    /\ components' = _parseUriString(string)
    /\ \E frame \in {URI_String(string)} : Outcome(frame)

\* URI::URI( const std::string& ) on a written input.
ConstructWritten ==
    /\ called = "none"
    /\ \E w \in WrittenInputs :
          /\ \E string \in {Write(w)} : Construct(string)
          /\ written' = w
          /\ isWritten' = TRUE
    /\ UNCHANGED <<codecVars, assignVars>>

\* URI::URI( const std::string& ) on a short string.
ConstructString ==
    /\ called = "none"
    /\ \E string \in ShortStrings :
          /\ Construct(string)
          /\ UNCHANGED <<written, isWritten>>
    /\ UNCHANGED <<codecVars, assignVars>>

Next == ConstructEmpty \/ ConstructWritten \/ ConstructString

Spec == Init /\ [][Next]_vars

(***************************************************************************)
(* The percent-encoding functions, called on their own.                    *)
(***************************************************************************)

\* The longest text of several characters given to the two functions.
MaxTextLen == 3

\* The characters of those texts: the percent sign, hexadecimal digits of
\* the three kinds, a letter that is no hexadecimal digit, a reserved
\* character.
TextAlphabet == Chars(<<"%", "4", "a", "F", "z", "/">>)

\* Every string of exactly n characters of TextAlphabet.
RECURSIVE TextsOfLength(_)
TextsOfLength(n) ==
    IF n = 0 THEN {<< >>}
    ELSE {<<c>> \o t : c \in TextAlphabet, t \in TextsOfLength(n - 1)}

\* Some texts of the unreserved characters alone, one of them with all four
\* marks.
UnreservedTexts ==
    { Str(<<"A", "z", "0", "9">>), Str(<<"-", ".", "_", "~">>),
      Str(<<"a", "-", "b", ".", "c", "_", "d", "~", "e">>), Str(<<"1", "0", "0">>) }

\* The texts a function is called on: every single byte, the short strings
\* of TextAlphabet, the texts of unreserved characters and "100%".  In none
\* of them a '%' is followed by a byte above 127, on which the call of
\* std::isxdigit with a plain char has undefined behaviour.
Texts ==
    {<<byte>> : byte \in 0..255}
        \cup UNION {TextsOfLength(n) : n \in 0..MaxTextLen}
        \cup UnreservedTexts
        \cup { Str(<<"1", "0", "0", "%">>) }

InitCodec ==
    /\ NoneConstructed
    /\ text \in Texts
    /\ applied = "none"
    /\ encoded = << >>
    /\ decoded = << >>
    /\ AssignIdle

\* __uri_percent_encode_encode( text )
Encode ==
    /\ applied = "none"
    /\ applied' = "encode"
    /\ encoded' = __uri_percent_encode_encode(text)
    /\ UNCHANGED <<text, decoded>>
    /\ UNCHANGED <<uriVars, assignVars>>

\* __uri_percent_encode_decode( text )
Decode ==
    /\ applied = "none"
    /\ applied' = "decode"
    /\ decoded' = __uri_percent_encode_decode(text)
    /\ UNCHANGED <<text, encoded>>
    /\ UNCHANGED <<uriVars, assignVars>>

\* __uri_percent_encode_decode( encoded ), on what the encoding returned.
DecodeEncoded ==
    /\ applied = "encode"
    /\ applied' = "encode, decode"
    /\ decoded' = __uri_percent_encode_decode(encoded)
    /\ UNCHANGED <<text, encoded>>
    /\ UNCHANGED <<uriVars, assignVars>>

NextCodec == Encode \/ Decode \/ DecodeEncoded

SpecCodec == InitCodec /\ [][NextCodec]_vars

(***************************************************************************)
(* Copies and moves, between two objects that are not the same object (so  *)
(* that the test this != &other of operator= holds).                       *)
(***************************************************************************)

\* The strings _copyAssign and _moveAssign assign.
AssignedMembers ==
    { "mScheme", "mUserInformation", "mHost", "mPort", "mPath", "mQuery", "mFragment",
      "mRawScheme", "mRawUserInformation", "mRawUserInformationWithPassword",
      "mRawHost", "mRawPath", "mRawQuery", "mRawFragment" }

\* _copyAssign: this after the fourteen assignments; mIsAbsolute and
\* mIsRelative are not assigned.
_copyAssign(this, otherObject) ==
    [ field \in DOMAIN this |->
        IF field \in AssignedMembers THEN otherObject[field] ELSE this[field] ]

\* _moveAssign: this after the fourteen move assignments, the same members.
_moveAssign(this, otherObject) ==
    [ field \in DOMAIN this |->
        IF field \in AssignedMembers THEN otherObject[field] ELSE this[field] ]

\* The object a std::string move assignment leaves behind: the library
\* empties the string it moved from.
MovedFrom(otherObject) ==
    [ field \in DOMAIN otherObject |->
        IF field \in AssignedMembers THEN << >> ELSE otherObject[field] ]

\* The object a copy or move constructor starts from: the strings are
\* default-constructed; no constructor initialises mIsAbsolute and
\* mIsRelative, whose values are indeterminate.
Uninitialised ==
    { [NoObject EXCEPT !.mIsAbsolute = absolute, !.mIsRelative = relative] :
        absolute \in BOOLEAN, relative \in BOOLEAN }

\* The inputs the two objects are constructed from: the empty string, an
\* absolute URI, a URI with a fragment, a relative reference, and others.
ObjectTexts ==
    { << >>,
      Str(<<"a",":","b">>),
      Str(<<"h","t","t","p",":","/","/","u","%","4","1","@","h",":","8","0","/","p","?","q">>),
      Str(<<"/","/","u","@","h","/","p","#","f">>),
      Str(<<"/","p","?","q">>),
      Str(<<"A","b",":","/","x","#","f">>) }

\* The objects constructed from them.
Objects == { Members(URI_String(string)) : string \in ObjectTexts }

InitAssign ==
    /\ NoneConstructed
    /\ CodecIdle
    /\ other \in Objects
    /\ had = other
    /\ self \in Objects
    /\ assigned = "none"

\* URI::URI( const URI& other )
CopyConstruct ==
    /\ assigned = "none"
    /\ assigned' = "URI(const URI&)"
    /\ \E this \in Uninitialised : self' = _copyAssign(this, other)
    /\ UNCHANGED <<other, had>>
    /\ UNCHANGED <<uriVars, codecVars>>

\* URI::URI( URI&& other )
MoveConstruct ==
    /\ assigned = "none"
    /\ assigned' = "URI(URI&&)"
    /\ \E this \in Uninitialised : self' = _moveAssign(this, other)
    /\ other' = MovedFrom(other)
    /\ UNCHANGED had
    /\ UNCHANGED <<uriVars, codecVars>>

\* URI::operator=( const URI& other )
CopyAssign ==
    /\ assigned = "none"
    /\ assigned' = "operator=(const URI&)"
    /\ self' = _copyAssign(self, other)
    /\ UNCHANGED <<other, had>>
    /\ UNCHANGED <<uriVars, codecVars>>

\* URI::operator=( URI&& other )
MoveAssign ==
    /\ assigned = "none"
    /\ assigned' = "operator=(URI&&)"
    /\ self' = _moveAssign(self, other)
    /\ other' = MovedFrom(other)
    /\ UNCHANGED had
    /\ UNCHANGED <<uriVars, codecVars>>

NextAssign == CopyAssign \/ MoveAssign \/ CopyConstruct \/ MoveConstruct

SpecAssign == InitAssign /\ [][NextAssign]_vars

(***************************************************************************)
(* What the claims speak of, stated without the patterns of the code.      *)
(***************************************************************************)

\* The largest port.
MaxPort == 65535

\* The letters, in two tuples that pair each capital with its small letter.
CapitalLetters ==
    Str(<<"A","B","C","D","E","F","G","H","I","J","K","L","M",
          "N","O","P","Q","R","S","T","U","V","W","X","Y","Z">>)
SmallLetters ==
    Str(<<"a","b","c","d","e","f","g","h","i","j","k","l","m",
          "n","o","p","q","r","s","t","u","v","w","x","y","z">>)
Letters == {CapitalLetters[k] : k \in 1..26} \cup {SmallLetters[k] : k \in 1..26}

\* s with every capital letter replaced by its small letter.
LowerCased(s) ==
    [i \in DOMAIN s |->
        IF \E k \in 1..26 : CapitalLetters[k] = s[i]
        THEN SmallLetters[CHOOSE k \in 1..26 : CapitalLetters[k] = s[i]]
        ELSE s[i]]

\* The number a string of decimal digits writes.
RECURSIVE DecimalValue(_)
DecimalValue(s) ==
    IF s = << >> THEN 0
    ELSE 10 * DecimalValue(Front(s)) + (CHOOSE d \in 0..9 : UpperHexDigits[d + 1] = s[Len(s)])

\* s is the decimal numeral, without leading zero, of an integer in 1..MaxPort.
IsPortNumeral(s) ==
    /\ s # << >>
    /\ AllIn(s, Digit)
    /\ s[1] # ZERO
    /\ Len(s) <= 5
    /\ DecimalValue(s) \in 1..MaxPort

\* Every character of s is one of singles or the '%' of a %XX triplet (the
\* two hexadecimal digits of a triplet are unreserved characters, so they are
\* among singles wherever this is used).
MadeOf(s, singles) ==
    \A i \in DOMAIN s :
        \/ s[i] \in singles
        \/ /\ s[i] = PERCENT
           /\ i + 2 <= Len(s)
           /\ s[i + 1] \in HexDigit
           /\ s[i + 2] \in HexDigit

Unreserved == Letters \cup Digit \cup Chars(<<"-", ".", "_", "~">>)
SubDelimiters == Chars(<<"!", "$", "&", "'", "(", ")", "*", "+", ",", ";", "=">>)

\* scheme = ALPHA *( ALPHA / DIGIT / "+" / "-" / "." )
WellFormedScheme(s) ==
    /\ s # << >>
    /\ s[1] \in Letters
    /\ \A i \in 2..Len(s) : s[i] \in Letters \cup Digit \cup Chars(<<"+", "-", ".">>)

\* userinfo = *( unreserved / pct-encoded / sub-delims / ":" )
WellFormedUserInformation(s) == MadeOf(s, Unreserved \cup SubDelimiters \cup {COLON})

\* reg-name = *( unreserved / pct-encoded / sub-delims )
WellFormedRegisteredName(s) == MadeOf(s, Unreserved \cup SubDelimiters)

\* path: segments of pchar separated by slashes
WellFormedPath(s) == MadeOf(s, Unreserved \cup SubDelimiters \cup {COLON, AT, SLASH})

\* query = fragment = *( pchar / "/" / "?" )
WellFormedQuery(s) == MadeOf(s, Unreserved \cup SubDelimiters \cup {COLON, AT, SLASH, QUESTION})

\* The bytes a percent-encoded text stands for, when every '%' of it starts a
\* %XX triplet.
RECURSIVE PercentDecoded(_)
PercentDecoded(s) ==
    IF s = << >> THEN << >>
    ELSE IF s[1] = PERCENT
    THEN << 16 * (CHOOSE v \in 0..15 : s[2] \in {UpperHexDigits[v + 1], LowerCased(UpperHexDigits)[v + 1]})
            + (CHOOSE v \in 0..15 : s[3] \in {UpperHexDigits[v + 1], LowerCased(UpperHexDigits)[v + 1]}) >>
         \o PercentDecoded(From(s, 4))
    ELSE << s[1] >> \o PercentDecoded(Tail(s))

\* The string constructor was called and the structural split matched, so
\* that the input has its seven components.
Split == called = "URI(string)" /\ components.matched

\* The components after the host are absent or well-formed, but for the port.
RestWellFormed ==
    /\ WellFormedPath(components.path)
    /\ WellFormedQuery(components.query)
    /\ WellFormedQuery(components.fragment)

\* The scheme is absent or well-formed.
SchemeFine == components.scheme = << >> \/ WellFormedScheme(components.scheme)

\* The written texts that are well-formed by RFC-3986; the host texts are a
\* registered name, an IPv4 address, an IPv6 literal and an IPvFuture literal.
GoodSchemeTexts == { Str(<<"h","t","t","p">>), Str(<<"A","b","+">>) }
GoodUserInformationTexts ==
    { Str(<<"u","s","e","r",":","p","a","s","s">>), Str(<<"u","%","4","1">>) }
IPv6LiteralTexts == { Str(<<"[",":",":","1","]">>) }
GoodHostTexts ==
    { Str(<<"h","o","s","t",".","c","o","m">>), Str(<<"1",".","2",".","3",".","4">>),
      Str(<<"[","v","1",".","a","]">>) } \cup IPv6LiteralTexts
GoodPortTexts == { Str(<<"8","0","8","0">>), Str(<<"6","5","5","3","5">>) }
GoodPathTexts == { Str(<<"/","p","a","t","h">>) }
GoodQueryTexts == { Str(<<"q","=","1">>) }
GoodFragmentTexts == { Str(<<"f","r","a","g">>) }

\* The input was written scheme://userinfo@host:port/path?query#fragment with
\* seven non-empty well-formed texts.
WrittenInFull ==
    /\ isWritten
    /\ written.authority
    /\ written.scheme \in GoodSchemeTexts
    /\ written.userInformation \in GoodUserInformationTexts
    /\ written.host \in GoodHostTexts
    /\ written.port \in GoodPortTexts
    /\ written.path \in GoodPathTexts
    /\ written.query \in GoodQueryTexts
    /\ written.fragment \in GoodFragmentTexts

(***************************************************************************)
(* The claims.                                                             *)
(***************************************************************************)

\* C1: an input written scheme://userinfo@host:port/path?query#fragment with
\* seven non-empty well-formed components is constructed, the accessors
\* return the components as written (the canonical scheme lower-cased, the
\* user information percent-decoded), and neither flag is set.
C1_FullUriParses ==
    WrittenInFull =>
        /\ constructed
        /\ getScheme(uri) = written.scheme
        /\ getCanonicalScheme(uri) = LowerCased(written.scheme)
        /\ getUserInformation(uri) = PercentDecoded(written.userInformation)
        /\ getHost(uri) = written.host
        /\ getPort(uri) = written.port
        /\ getPath(uri) = written.path
        /\ getQuery(uri) = written.query
        /\ getFragment(uri) = written.fragment
        /\ ~uri.mIsAbsolute
        /\ ~uri.mIsRelative

\* C2: a non-empty valid host establishes the authority: with no user
\* information, a registered-name host and a port numeral in 1..65535 (the
\* other components absent or well-formed) the URI is constructed and the
\* port accessor returns the port; "No host defined for port" is thrown only
\* when the host is empty.
C2_HostEstablishesAuthority ==
    /\ ( /\ Split
         /\ SchemeFine
         /\ components.userInformation = << >>
         /\ components.host # << >>
         /\ WellFormedRegisteredName(components.host)
         /\ IsPortNumeral(components.port)
         /\ RestWellFormed )
       => (constructed /\ getPort(uri) = components.port)
    /\ thrown = "No host defined for port" => components.host = << >>

\* C3: for an input whose host is written as a bracketed IPv6 literal with a
\* port numeral after it, the split gives the whole literal as the host and
\* the numeral as the port, the raw host matches the IP-literal pattern, and
\* the URI is constructed with that literal as its raw host.
C3_IPv6LiteralHost ==
    ( /\ isWritten
      /\ written.authority
      /\ written.scheme \in GoodSchemeTexts \cup {<< >>}
      /\ written.userInformation \in GoodUserInformationTexts \cup {<< >>}
      /\ written.host \in IPv6LiteralTexts
      /\ IsPortNumeral(written.port)
      /\ written.path \in GoodPathTexts \cup {<< >>}
      /\ written.query \in GoodQueryTexts \cup {<< >>}
      /\ written.fragment \in GoodFragmentTexts \cup {<< >>} )
    => /\ components.host = written.host
       /\ components.port = written.port
       /\ constructed
       /\ getRawHost(uri) = written.host
       /\ STRING_IPLITERAL_REGEX(getRawHost(uri))

\* C4: the port of a constructed URI is empty or the decimal numeral, without
\* leading zero or any other character, of an integer in 1..65535.
C4_PortIsNumeral ==
    constructed => (getPort(uri) = << >> \/ IsPortNumeral(getPort(uri)))

\* C5: when the scheme, the user information and the host are fine and the
\* port text is non-empty but no numeral in 1..65535, construction fails
\* with "Invalid port".
C5_BadPortRejected ==
    ( /\ Split
      /\ SchemeFine
      /\ WellFormedUserInformation(components.userInformation)
      /\ WellFormedRegisteredName(components.host)
      /\ (components.userInformation # << >> => components.host # << >>)
      /\ components.port # << >>
      /\ ~IsPortNumeral(components.port) )
    => (~constructed /\ thrown = "Invalid port")

\* C6, as claimed: every input with an empty host and a port numeral in
\* 1..65535 fails with "No host defined for port", so that a constructed URI
\* with a port has a host.
C6_AsClaimed ==
    /\ (Split /\ components.host = << >> /\ IsPortNumeral(components.port))
       => (~constructed /\ thrown = "No host defined for port")
    /\ (constructed /\ getPort(uri) # << >>) => getHost(uri) # << >>

\* C6, amended: an input with an absent or well-formed scheme, no user
\* information, an empty host and a port numeral in 1..65535 fails with
\* "No host defined for port"; with user information and an empty host the
\* failure is one of the earlier blocks; a constructed URI with a port has a
\* host.
C6_PortWithoutHost ==
    /\ (Split /\ components.host = << >> /\ IsPortNumeral(components.port))
       => /\ ~constructed
          /\ (SchemeFine /\ components.userInformation = << >>)
                => thrown = "No host defined for port"
          /\ components.userInformation # << >>
                => thrown \in { "Invalid scheme", "Invalid user information",
                                "User information set without a host" }
    /\ (constructed /\ getPort(uri) # << >>) => getHost(uri) # << >>

\* C6: the empty host and the port numeral are refused for the missing host.
C6_Witness ==
    /\ Split
    /\ components.host = << >>
    /\ components.userInformation = << >>
    /\ IsPortNumeral(components.port)
    /\ thrown = "No host defined for port"

\* C7, as claimed: every input with non-empty well-formed user information
\* and an empty host fails with "User information set without a host", so
\* that a constructed URI with user information has a host.
C7_AsClaimed ==
    /\ ( /\ Split
         /\ components.userInformation # << >>
         /\ WellFormedUserInformation(components.userInformation)
         /\ components.host = << >> )
       => (~constructed /\ thrown = "User information set without a host")
    /\ (constructed /\ getUserInformation(uri) # << >>) => getHost(uri) # << >>

\* C7, amended: an input with an absent or well-formed scheme, non-empty
\* well-formed user information and an empty host fails with "User
\* information set without a host" (with a malformed scheme it fails with
\* "Invalid scheme"); a constructed URI with user information has a host.
C7_AuthorityWithoutHost ==
    /\ ( /\ Split
         /\ components.userInformation # << >>
         /\ WellFormedUserInformation(components.userInformation)
         /\ components.host = << >> )
       => /\ ~constructed
          /\ thrown = IF SchemeFine THEN "User information set without a host"
                      ELSE "Invalid scheme"
    /\ (constructed /\ getUserInformation(uri) # << >>) => getHost(uri) # << >>

\* C7: well-formed user information before an empty host is refused.
C7_Witness ==
    /\ Split
    /\ components.userInformation # << >>
    /\ WellFormedUserInformation(components.userInformation)
    /\ components.host = << >>
    /\ thrown = "User information set without a host"

\* C8: a non-empty scheme is accepted exactly when it is a letter followed
\* by letters, digits, '+', '-' or '.'; an accepted scheme is returned in its
\* case by the scheme accessor and lower-cased by the canonical one; any
\* other scheme fails the construction with "Invalid scheme", whatever the
\* other components are.
C8_SchemeGrammar ==
    (Split /\ components.scheme # << >>)
    => IF WellFormedScheme(components.scheme)
       THEN /\ thrown # "Invalid scheme"
            /\ constructed => /\ getScheme(uri) = components.scheme
                              /\ getCanonicalScheme(uri) = LowerCased(components.scheme)
       ELSE ~constructed /\ thrown = "Invalid scheme"

\* C8: a scheme with a capital letter is constructed, and its canonical form
\* differs from it.
C8_Witness ==
    /\ Split
    /\ constructed
    /\ WellFormedScheme(components.scheme)
    /\ getScheme(uri) = components.scheme
    /\ getCanonicalScheme(uri) # getScheme(uri)

\* C9: after a successful construction isAbsolute holds exactly when the
\* scheme is present and the fragment absent, and isAbsolute and isRelative
\* are never both set.
C9_AbsoluteFlag ==
    constructed =>
        /\ uri.mIsAbsolute <=> (getScheme(uri) # << >> /\ getFragment(uri) = << >>)
        /\ ~(uri.mIsAbsolute /\ uri.mIsRelative)

\* C9: a URI with a scheme and a fragment is constructed, and is not absolute.
C9_Witness ==
    /\ constructed
    /\ getScheme(uri) # << >>
    /\ getFragment(uri) # << >>
    /\ ~uri.mIsAbsolute

\* C10, as claimed: after a successful construction isRelative holds exactly
\* when the scheme is absent, with a fragment or without.
C10_AsClaimed ==
    constructed => (uri.mIsRelative <=> getScheme(uri) = << >>)

\* C10, amended: after a successful construction isRelative holds exactly
\* when the scheme and the fragment are both absent.
C10_RelativeFlag ==
    constructed =>
        (uri.mIsRelative <=> (getScheme(uri) = << >> /\ getFragment(uri) = << >>))

\* C10: a URI without scheme and with a fragment is constructed, and is not
\* relative.
C10_Witness ==
    /\ constructed
    /\ called = "URI(string)"
    /\ getScheme(uri) = << >>
    /\ getFragment(uri) # << >>
    /\ ~uri.mIsRelative

\* The value of a hexadecimal digit.
HexDigitValue(c) ==
    IF c \in Digit THEN c - ZERO
    ELSE 9 + (CHOOSE k \in 1..6 : c \in {CapitalLetters[k], SmallLetters[k]})

\* The decoding that lets pass what it cannot decode: a '%' with two
\* hexadecimal digits after it stands for one byte, every other character,
\* a '%' among them, stands for itself.
RECURSIVE PermissiveDecoded(_)
PermissiveDecoded(s) ==
    IF s = << >> THEN << >>
    ELSE IF s[1] = PERCENT /\ Len(s) >= 3 /\ s[2] \in HexDigit /\ s[3] \in HexDigit
    THEN << 16 * HexDigitValue(s[2]) + HexDigitValue(s[3]) >> \o PermissiveDecoded(From(s, 4))
    ELSE << s[1] >> \o PermissiveDecoded(Tail(s))

\* How many times the character c is in s.
RECURSIVE Count(_, _)
Count(s, c) ==
    IF s = << >> THEN 0 ELSE (IF s[1] = c THEN 1 ELSE 0) + Count(Tail(s), c)

\* C11: decode lets pass what it cannot decode: a '%' that is not followed
\* by two hexadecimal digits is returned as it is, with the bytes after it,
\* so that decode never drops a '%' of a text that has no %XX triplet.
C11_DecodePermissive ==
    applied = "decode" =>
        /\ decoded = PermissiveDecoded(text)
        /\ AllIn(text, Chars(<<"%", "z">>)) => Count(decoded, PERCENT) = Count(text, PERCENT)

\* C12: a text of unreserved characters alone is its own encoding, and the
\* decoding of the encoding is the text; a single byte that is not
\* unreserved is encoded as '%' and the two capital hexadecimal digits of the
\* byte, and the decoding of that is the byte.
C12_RoundTrip ==
    /\ (applied \in {"encode", "encode, decode"} /\ AllIn(text, Unreserved))
       => encoded = text
    /\ (applied = "encode, decode" /\ AllIn(text, Unreserved))
       => decoded = text
    /\ (applied \in {"encode", "encode, decode"} /\ Len(text) = 1 /\ text[1] \notin Unreserved)
       => /\ Len(encoded) = 3
          /\ encoded[1] = PERCENT
          /\ encoded[2] \in Digit \cup {CapitalLetters[k] : k \in 1..6}
          /\ encoded[3] \in Digit \cup {CapitalLetters[k] : k \in 1..6}
          /\ 16 * HexDigitValue(encoded[2]) + HexDigitValue(encoded[3]) = text[1]
    /\ (applied = "encode, decode" /\ Len(text) = 1 /\ text[1] \notin Unreserved)
       => decoded = text

\* C12: a byte above 127 was encoded with a letter among its two digits, and
\* the encoding decoded to the byte.
C12_Witness ==
    /\ applied = "encode, decode"
    /\ Len(text) = 1
    /\ text[1] > 127
    /\ encoded[2] \in {CapitalLetters[k] : k \in 1..6}
    /\ decoded = text

\* C13: after a copy or a move from an object, construction or assignment,
\* every accessor of the destination returns what the object had, the two
\* flags of the destination are those the object had, whatever the
\* destination held before, and the source of a copy is unchanged.
C13_CopyAndMoveComplete ==
    assigned \in {"URI(const URI&)", "URI(URI&&)", "operator=(const URI&)", "operator=(URI&&)"}
    => /\ getScheme(self) = getScheme(had)
       /\ getCanonicalScheme(self) = getCanonicalScheme(had)
       /\ getUserInformation(self) = getUserInformation(had)
       /\ getHost(self) = getHost(had)
       /\ getPort(self) = getPort(had)
       /\ getPath(self) = getPath(had)
       /\ getQuery(self) = getQuery(had)
       /\ getFragment(self) = getFragment(had)
       /\ getRawUserInformation(self, FALSE) = getRawUserInformation(had, FALSE)
       /\ getRawUserInformation(self, TRUE) = getRawUserInformation(had, TRUE)
       /\ getRawHost(self) = getRawHost(had)
       /\ getRawPath(self) = getRawPath(had)
       /\ getRawQuery(self) = getRawQuery(had)
       /\ getRawFragment(self) = getRawFragment(had)
       /\ self.mIsAbsolute = had.mIsAbsolute
       /\ self.mIsRelative = had.mIsRelative
       /\ assigned \in {"URI(const URI&)", "operator=(const URI&)"} => other = had

\* C14: in every constructed URI the decoding of the raw user information
\* (without password) is the user information, and the decoding of the raw
\* host is the host.
C14_RawDecodesToDecoded ==
    constructed =>
        /\ __uri_percent_encode_decode(getRawUserInformation(uri, FALSE)) = getUserInformation(uri)
        /\ __uri_percent_encode_decode(getRawHost(uri)) = getHost(uri)

\* C14: a URI is constructed whose raw user information and raw host both
\* differ from their decoded forms.
C14_Witness ==
    /\ constructed
    /\ getRawUserInformation(uri, FALSE) # getUserInformation(uri)
    /\ getRawHost(uri) # getHost(uri)
    /\ __uri_percent_encode_decode(getRawHost(uri)) = getHost(uri)

\* C15: in every constructed URI the raw path, the raw query and the raw
\* fragment are non-empty when the path, the query and the fragment are, and
\* the raw user information with its password is the user information as
\* it was given when there is user information.
C15_RawAccessorsFilled ==
    constructed =>
        /\ getPath(uri) # << >> => getRawPath(uri) # << >>
        /\ getQuery(uri) # << >> => getRawQuery(uri) # << >>
        /\ getFragment(uri) # << >> => getRawFragment(uri) # << >>
        /\ (called = "URI(string)" /\ getUserInformation(uri) # << >>)
              => getRawUserInformation(uri, TRUE) = components.userInformation

\* The host is one of IP-literal, IPv4address and reg-name (an IPv4 address
\* is a reg-name as well).
WellFormedHost(s) == WellFormedRegisteredName(s) \/ STRING_IPLITERAL_REGEX(s)

\* C16: when the scheme and the user information are fine, a non-empty host
\* that is none of IP-literal, IPv4address and reg-name, as one with a space,
\* a '<' or a '%' without two hexadecimal digits, fails the construction
\* with "Invalid host".
C16_BadHostRejected ==
    ( /\ Split
      /\ SchemeFine
      /\ WellFormedUserInformation(components.userInformation)
      /\ components.host # << >>
      /\ ~WellFormedHost(components.host) )
    => (~constructed /\ thrown = "Invalid host")

\* C17: the fragment of every constructed URI is made of pchar characters,
\* '/' and '?' alone, and an input whose fragment text has another
\* character, a '#' for one, fails with "Invalid fragment".
C17_FragmentCharacters ==
    /\ constructed => WellFormedQuery(getFragment(uri))
    /\ ( /\ Split
         /\ ~WellFormedQuery(components.fragment)
         /\ thrown \notin { "Invalid scheme", "Invalid user information",
                             "User information set without a host", "Invalid host",
                             "Invalid port", "No host defined for port",
                             "Invalid path", "Invalid query" } )
       => thrown = "Invalid fragment"

\* C18: the structural split matches every input string, the empty one and
\* those with line terminators after a '#' among them, so that no
\* construction fails with "Failed to parse a URI from the given string".
C18_SplitUnconditional ==
    called = "URI(string)" =>
        /\ components.matched
        /\ thrown # "Failed to parse a URI from the given string"

\* For each of the seven components, in the order scheme, user information,
\* host, port, path, query, fragment, whether it is invalid: malformed, or
\* user information or a port that has no host.
Malformed ==
    << components.scheme # << >> /\ ~WellFormedScheme(components.scheme),
       ~WellFormedUserInformation(components.userInformation),
       \/ components.host # << >> /\ ~WellFormedHost(components.host)
       \/ components.host = << >> /\ components.userInformation # << >>,
       components.port # << >> /\ (~IsPortNumeral(components.port) \/ components.host = << >>),
       ~WellFormedPath(components.path),
       ~WellFormedQuery(components.query),
       ~WellFormedQuery(components.fragment) >>

\* The errors of the seven components.
ErrorsOf ==
    << {"Invalid scheme"},
       {"Invalid user information"},
       {"Invalid host", "User information set without a host"},
       {"Invalid port", "No host defined for port"},
       {"Invalid path"},
       {"Invalid query"},
       {"Invalid fragment"} >>

\* C19: the components are validated in the order scheme, user information,
\* host, port, path, query, fragment and the first failure ends the
\* construction: when several components are invalid the error thrown is
\* the one of the earliest of them, and a port that is malformed and has no
\* authority is reported as "Invalid port", not as "No host defined for
\* port".
C19_EarliestErrorReported ==
    /\ (Split /\ Cardinality({k \in 1..7 : Malformed[k]}) >= 2)
       => thrown \in ErrorsOf[CHOOSE k \in 1..7 : Malformed[k] /\ \A j \in 1..(k - 1) : ~Malformed[j]]
    /\ ( /\ Split
         /\ \A k \in 1..3 : ~Malformed[k]
         /\ components.port # << >>
         /\ ~IsPortNumeral(components.port)
         /\ components.userInformation = << >>
         /\ components.host = << >> )
       => thrown = "Invalid port"

====
